---- MODULE Spec2Model ----
(***************************************************************************)
(* Etisalat UPG "Request to Pay" relay: the Express endpoint               *)
(* POST /api/request-to-pay (server.js), the gateway client requestToPay   *)
(* (services/upgService.js, in its three revisions) and the signer         *)
(* (utils/hash.js).                                                        *)
(*                                                                         *)
(* JavaScript values are records [t, b, n, s]: t is the type tag, b the    *)
(* boolean, n the number in thousandths (10.5 is 10500), s the string as   *)
(* a sequence of one-character strings.                                    *)
(***************************************************************************)
EXTENDS Integers, Sequences, FiniteSets, TLC

\* ------------------------------------------------------------------ bounds
\* Number of request slots; Spec drives the first one, the others stay idle.
NumReqs == 2
\* Largest wall-clock reading, in milliseconds, and the step of the clock.
MaxNow == 10
TickMs == 5

\* ------------------------------------------------------- program constants
Scale == 1000
maxRetries == 3
BackoffUnit == 3000
ServerErrorStatus == 500
DefaultCurrency == 818

\* ---------------------------------------------------------- JS value layer
Undef == [t |-> "undef", b |-> FALSE, n |-> 0, s |-> <<>>]
NaN == [t |-> "nan", b |-> FALSE, n |-> 0, s |-> <<>>]
Infinity == [t |-> "inf", b |-> FALSE, n |-> 0, s |-> <<>>]
Bool(x) == [t |-> "bool", b |-> x, n |-> 0, s |-> <<>>]
Num(k) == [t |-> "num", b |-> FALSE, n |-> k, s |-> <<>>]
Whole(k) == Num(k * Scale)
Str(q) == [t |-> "str", b |-> FALSE, n |-> 0, s |-> q]

\* JavaScript ToBoolean: what `!x`, `x || y` and `if (x)` test.
Truthy(v) ==
    CASE v.t = "undef" -> FALSE
      [] v.t = "nan" -> FALSE
      [] v.t = "inf" -> TRUE
      [] v.t = "bool" -> v.b
      [] v.t = "num" -> v.n # 0
      [] v.t = "str" -> v.s # <<>>

Digits == <<"0", "1", "2", "3", "4", "5", "6", "7", "8", "9">>
IsDigit(c) == \E i \in 1..Len(Digits) : Digits[i] = c
DigitVal(c) == (CHOOSE i \in 1..Len(Digits) : Digits[i] = c) - 1

RECURSIVE DropLeadingSpaces(_)
DropLeadingSpaces(q) ==
    IF q # <<>> /\ Head(q) = " " THEN DropLeadingSpaces(Tail(q)) ELSE q

RECURSIVE DropTrailingSpaces(_)
DropTrailingSpaces(q) ==
    IF q # <<>> /\ q[Len(q)] = " "
    THEN DropTrailingSpaces(SubSeq(q, 1, Len(q) - 1))
    ELSE q

\* String.prototype.trim
Trim(q) == DropTrailingSpaces(DropLeadingSpaces(q))

\* Length of the longest prefix of q made of digits.
RECURSIVE DigitRun(_)
DigitRun(q) == IF q # <<>> /\ IsDigit(Head(q)) THEN 1 + DigitRun(Tail(q)) ELSE 0

\* Value of a digit string, most significant digit first.
RECURSIVE DigitsValue(_)
DigitsValue(q) ==
    IF q = <<>> THEN 0 ELSE DigitsValue(SubSeq(q, 1, Len(q) - 1)) * 10 + DigitVal(q[Len(q)])

\* The first k characters of q (all of q when it is shorter).
Take(q, k) == SubSeq(q, 1, IF k < Len(q) THEN k ELSE Len(q))

\* Value, in thousandths, of the fraction digits after a decimal point.
FractionValue(q) ==
    LET d(i) == IF i <= Len(q) THEN DigitVal(q[i]) ELSE 0
    IN d(1) * 100 + d(2) * 10 + d(3)

\* parseFloat on a string: leading blanks, an optional sign, then the longest
\* prefix that is a decimal literal (digits, optional point, digits); NaN when
\* there is no such prefix. Literals carry at most three decimals and no exponent.
ParseFloatString(q) ==
    LET r == DropLeadingSpaces(q)
        neg == r # <<>> /\ Head(r) = "-"
        u == IF r # <<>> /\ Head(r) \in {"-", "+"} THEN Tail(r) ELSE r
        ni == DigitRun(u)
        afterInt == SubSeq(u, ni + 1, Len(u))
        hasPoint == afterInt # <<>> /\ Head(afterInt) = "."
        frac == IF hasPoint THEN Tail(afterInt) ELSE <<>>
        nf == DigitRun(frac)
        mag == DigitsValue(SubSeq(u, 1, ni)) * Scale + FractionValue(SubSeq(frac, 1, nf))
    IN IF ni = 0 /\ nf = 0
       THEN IF Take(u, 8) = <<"I", "n", "f", "i", "n", "i", "t", "y">>
            THEN Infinity ELSE NaN
       ELSE Num(IF neg THEN -mag ELSE mag)

\* parseFloat(v): a number parses to itself, a string by ParseFloatString, any
\* other value (undefined, boolean) to NaN.
parseFloat(v) ==
    CASE v.t = "num" -> v
      [] v.t = "inf" -> v
      [] v.t = "str" -> ParseFloatString(v.s)
      [] OTHER -> NaN

\* parseInt on a string: leading blanks, optional sign, the digit prefix.
ParseIntString(q) ==
    LET r == DropLeadingSpaces(q)
        neg == r # <<>> /\ Head(r) = "-"
        u == IF r # <<>> /\ Head(r) \in {"-", "+"} THEN Tail(r) ELSE r
        ni == DigitRun(u)
        mag == DigitsValue(SubSeq(u, 1, ni)) * Scale
    IN IF ni = 0 THEN NaN ELSE Num(IF neg THEN -mag ELSE mag)

\* parseInt(v): ToString(v), then the integer prefix; a number loses its
\* fraction (truncation toward zero), Infinity and NaN give NaN.
parseInt(v) ==
    CASE v.t = "num" ->
            Num(IF v.n >= 0 THEN (v.n \div Scale) * Scale ELSE -(((-v.n) \div Scale) * Scale))
      [] v.t = "str" -> ParseIntString(v.s)
      [] OTHER -> NaN

\* Mutant of RoundTimes100: Math.floor in place of Math.round.
FloorTimes100(v) ==
    CASE v.t = "num" -> Whole(v.n \div 10)
      [] v.t = "inf" -> Infinity
      [] OTHER -> NaN

\* Math.round(x * 100) for x in thousandths: the nearest integer, ties upward.
RoundTimes100(v) ==
    CASE v.t = "num" -> Whole((v.n + 5) \div 10)
      [] v.t = "inf" -> Infinity
      [] OTHER -> NaN

\* x <= 0 in JavaScript: false for NaN.
LessOrEqualZero(v) == v.t = "num" /\ v.n <= 0


\* ------------------------------------------------------------ utils/hash.js
Pad2(k) == <<Digits[((k \div 10) % 10) + 1], Digits[(k % 10) + 1]>>

\* generateTransactionDateTime: YYMMDDHHMMSS plus the first two digits of the
\* three-digit millisecond field; t is the wall clock in milliseconds since the
\* start of the day the model runs in (1 January 2025, local time).
generateTransactionDateTime(t) ==
    Pad2(25) \o Pad2(1) \o Pad2(1)
        \o Pad2((t \div 3600000) % 24)
        \o Pad2((t \div 60000) % 60)
        \o Pad2((t \div 1000) % 60)
        \o Pad2((t % 1000) \div 10)

HexDigits ==
    <<"0", "1", "2", "3", "4", "5", "6", "7", "8", "9", "a", "b", "c", "d", "e", "f">>
UpperHex == <<"A", "B", "C", "D", "E", "F">>
IsHex(c) ==
    \/ \E i \in 1..Len(HexDigits) : HexDigits[i] = c
    \/ \E i \in 1..Len(UpperHex) : UpperHex[i] = c
HexVal(c) ==
    IF \E i \in 1..Len(HexDigits) : HexDigits[i] = c
    THEN (CHOOSE i \in 1..Len(HexDigits) : HexDigits[i] = c) - 1
    ELSE (CHOOSE i \in 1..Len(UpperHex) : UpperHex[i] = c) + 9

\* Buffer.from(q, 'hex'): one byte per pair of hex digits, stopping without an
\* error at the first pair that is not two hex digits (a trailing odd digit is
\* dropped).
RECURSIVE BufferFromHex(_)
BufferFromHex(q) ==
    IF Len(q) >= 2 /\ IsHex(q[1]) /\ IsHex(q[2])
    THEN <<HexVal(q[1]) * 16 + HexVal(q[2])>> \o BufferFromHex(SubSeq(q, 3, Len(q)))
    ELSE <<>>

\* Decimal digits of a natural number.
RECURSIVE NatString(_)
NatString(k) == IF k < 10 THEN <<Digits[k + 1]>> ELSE NatString(k \div 10) \o <<Digits[(k % 10) + 1]>>

\* Number to string: the integer part, then the thousandths when there are any.
NumberString(n) ==
    LET a == IF n < 0 THEN -n ELSE n
        whole == NatString(a \div Scale)
        frac == IF a % Scale = 0 THEN <<>> ELSE <<".">> \o Pad2((a % Scale) \div 10) \o <<Digits[(a % 10) + 1]>>
    IN (IF n < 0 THEN <<"-">> ELSE <<>>) \o whole \o frac

\* ToString as a template literal applies it.
TemplateString(v) ==
    CASE v.t = "str" -> v.s
      [] v.t = "num" -> NumberString(v.n)
      [] v.t = "bool" -> IF v.b THEN <<"true">> ELSE <<"false">>
      [] v.t = "undef" -> <<"undefined">>
      [] v.t = "nan" -> <<"NaN">>
      [] v.t = "inf" -> <<"Infinity">>

\* Mutant of dataString: the terminal id is left out of the signed string.
dataStringWithoutTerminal(dateTimeLocalTrxn, merchantId, terminalId) ==
    <<"DateTimeLocalTrxn=">> \o dateTimeLocalTrxn
        \o <<"&MerchantId=">> \o TemplateString(merchantId)

\* The string that is signed (hash.js line 15).
dataString(dateTimeLocalTrxn, merchantId, terminalId) ==
    <<"DateTimeLocalTrxn=">> \o dateTimeLocalTrxn
        \o <<"&MerchantId=">> \o TemplateString(merchantId)
        \o <<"&TerminalId=">> \o TemplateString(terminalId)

\* HMAC pads a key shorter than the block of the hash with zero bytes: two
\* keys are the same HMAC key exactly when they agree once their trailing zero
\* bytes are dropped (every key here is shorter than the 64-byte block).
RECURSIVE ZeroPadKey(_)
ZeroPadKey(keyBuffer) ==
    IF keyBuffer # <<>> /\ keyBuffer[Len(keyBuffer)] = 0
    THEN ZeroPadKey(SubSeq(keyBuffer, 1, Len(keyBuffer) - 1))
    ELSE keyBuffer

\* HMAC-SHA256 as an ideal keyed hash: the digest is determined by, and
\* determines, the padded key and the message.
HmacSha256Hex(keyBuffer, message) == <<"HMAC", ZeroPadKey(keyBuffer), message>>

\* How the TypeError of Buffer.from names the value it was given
\* ("Received type number (1234)"): a number or a boolean is printed.
ReceivedValue(v) ==
    CASE v.t = "num" -> <<"Received", "type", "number">> \o NumberString(v.n)
      [] v.t = "bool" -> <<"Received", "type", "boolean", IF v.b THEN "true" ELSE "false">>
      [] v.t = "nan" -> <<"Received", "type", "number", "NaN">>
      [] v.t = "inf" -> <<"Received", "type", "number", "Infinity">>
      [] OTHER -> <<"Received", "undefined">>

\* generateSecureHash: [ok, hash, message]. Buffer.from throws a TypeError for
\* a key that is not a string, which the catch rethrows as "Failed to generate
\* secure hash: " followed by the TypeError's message; every string key is
\* accepted.
generateSecureHash(dateTimeLocalTrxn, merchantId, terminalId, merchantSecretKey) ==
    IF merchantSecretKey.t # "str"
    THEN [ok |-> FALSE, hash |-> <<>>,
          message |-> <<"Failed", "to", "generate", "secure", "hash", "The", "first",
                        "argument", "must", "be", "of", "type", "string">>
                          \o ReceivedValue(merchantSecretKey)]
    ELSE [ok |-> TRUE, message |-> <<>>,
          hash |-> HmacSha256Hex(BufferFromHex(merchantSecretKey.s),
                                 dataString(dateTimeLocalTrxn, merchantId, terminalId))]

\* ------------------------------------------------------------------ errors
\* An Error as its message determines it: kind is the message template, the
\* other fields are what the template interpolates.
Err(kind, inner, field, status, data, code) ==
    [kind |-> kind, inner |-> inner, field |-> field, status |-> status,
     data |-> data, code |-> code, message |-> <<>>]
NoErr == Err("none", "", "", 0, "", "")

\* What is thrown inside requestToPay's try block, before the catch maps it:
\* the properties the catch block and the retry test read.
Raw(src, field, code, message, status, data, request) ==
    [src |-> src, field |-> field, code |-> code, message |-> message,
     status |-> status, data |-> data, request |-> request, timeout |-> FALSE]
NoRaw == Raw("none", "", "", <<>>, 0, "", FALSE)

\* "Request setup error: ${error.message}": the last branch of each catch block.
SetupError(error) ==
    [Err("setup", error.src, error.field, 0, "", "") EXCEPT !.message = error.message]

\* --------------------------------------------------------------- upstream
\* The three revisions of requestToPay held in services/upgService.js.
Revisions == {"noRetry", "retry", "basic"}

\* What the network can answer to one axios.post: an HTTP response, or a
\* transport failure with the error code and message Node and axios give it.
Responses ==
    { [kind |-> "response", status |-> 200, data |-> "SuccessTrue", code |-> "", message |-> <<>>],
      [kind |-> "response", status |-> 200, data |-> "SuccessFalse", code |-> "", message |-> <<>>],
      [kind |-> "response", status |-> 404, data |-> "NotFound", code |-> "", message |-> <<>>],
      [kind |-> "response", status |-> 500, data |-> "ServerError", code |-> "", message |-> <<>>] }
Failure(code, message) ==
    [kind |-> "failure", status |-> 0, data |-> "", code |-> code, message |-> message]
Failures ==
    { Failure("ECONNABORTED", <<"timeout", "of", "ms", "exceeded">>),
      Failure("ETIMEDOUT", <<"connect", "ETIMEDOUT">>),
      Failure("ECONNRESET", <<"socket", "hang", "up">>),
      Failure("ENOTFOUND", <<"getaddrinfo", "ENOTFOUND">>),
      Failure("ECONNREFUSED", <<"connect", "ECONNREFUSED">>),
      Failure("EHOSTUNREACH", <<"connect", "EHOSTUNREACH">>) }
Outcomes == Responses \cup Failures

\* validateStatus: status < 500 where the revision configures it, the axios
\* default (2xx) in the revision that does not.
validateStatus(rev, status) ==
    IF rev = "basic" THEN status >= 200 /\ status < 300 ELSE status < ServerErrorStatus

\* The error axios.post rejects with, or NoRaw when it resolves.
AxiosError(rev, o) ==
    IF o.kind = "response"
    THEN IF validateStatus(rev, o.status)
         THEN NoRaw
         ELSE Raw("axios", "",
                  IF o.status >= ServerErrorStatus THEN "ERR_BAD_RESPONSE" ELSE "ERR_BAD_REQUEST",
                  <<"Request", "failed", "with", "status", "code">>, o.status, o.data, TRUE)
    ELSE Raw("axios", "", o.code, o.message, 0, "", TRUE)

\* error.message?.includes('timeout')
MessageIncludesTimeout(message) == \E i \in 1..Len(message) : message[i] = "timeout"

\* Mutant of ShouldRetry: every failure is retried while attempts remain.
ShouldRetryAnyFailure(rev, attempt, error) == rev = "retry" /\ attempt < maxRetries

\* Mutant of ShouldRetry: the test on the attempt number is dropped.
ShouldRetryUnbounded(rev, attempt, error) ==
    /\ rev = "retry"
    /\ \/ error.code = "ECONNABORTED"
       \/ error.code = "ETIMEDOUT"
       \/ error.code = "ECONNRESET"
       \/ MessageIncludesTimeout(error.message)

\* The retry test of the retry revision (lines 313-318).
ShouldRetry(rev, attempt, error) ==
    /\ rev = "retry"
    /\ attempt < maxRetries
    /\ \/ error.code = "ECONNABORTED"
       \/ error.code = "ETIMEDOUT"
       \/ error.code = "ECONNRESET"
       \/ MessageIncludesTimeout(error.message)

\* Mutant of MapErrorRetry: the ENOTFOUND branch is missing.
MapErrorRetryWithoutDns(error) ==
    IF error.status # 0
    THEN Err("upgApiError", "", "", error.status, error.data, "")
    ELSE IF error.request
    THEN CASE error.code = "ECONNREFUSED" -> Err("refused", "", "", 0, "", "")
           [] error.code = "ETIMEDOUT" \/ error.timeout -> Err("timeout", "", "", 0, "", "")
           [] error.code = "ECONNRESET" -> Err("reset", "", "", 0, "", "")
           [] error.code = "ECONNABORTED" -> Err("timeoutAfter90", "", "", 0, "", "")
           [] OTHER -> Err("network", "", "", 0, "", error.code)
    ELSE SetupError(error)

\* Mutant of MapErrorRetry: the branch for an upstream response is missing.
MapErrorRetryIgnoringResponse(error) ==
    IF error.request
    THEN CASE error.code = "ENOTFOUND" -> Err("dns", "", "", 0, "", "")
           [] error.code = "ECONNREFUSED" -> Err("refused", "", "", 0, "", "")
           [] error.code = "ETIMEDOUT" \/ error.timeout -> Err("timeout", "", "", 0, "", "")
           [] error.code = "ECONNRESET" -> Err("reset", "", "", 0, "", "")
           [] error.code = "ECONNABORTED" -> Err("timeoutAfter90", "", "", 0, "", "")
           [] OTHER -> Err("network", "", "", 0, "", error.code)
    ELSE SetupError(error)

\* The catch block of requestToPay (lines 333-382): the Error thrown to the
\* caller. A missing response reads as status 0.
MapErrorRetry(error) ==
    IF error.status # 0
    THEN Err("upgApiError", "", "", error.status, error.data, "")
    ELSE IF error.request
    THEN CASE error.code = "ENOTFOUND" -> Err("dns", "", "", 0, "", "")
           [] error.code = "ECONNREFUSED" -> Err("refused", "", "", 0, "", "")
           [] error.code = "ETIMEDOUT" \/ error.timeout -> Err("timeout", "", "", 0, "", "")
           [] error.code = "ECONNRESET" -> Err("reset", "", "", 0, "", "")
           [] error.code = "ECONNABORTED" -> Err("timeoutAfter90", "", "", 0, "", "")
           [] OTHER -> Err("network", "", "", 0, "", error.code)
    ELSE SetupError(error)

\* The catch block of the revision without the retry loop (lines 121-168).
MapErrorNoRetry(error) ==
    IF error.status # 0
    THEN Err("upgApiError", "", "", error.status, error.data, "")
    ELSE IF error.request
    THEN CASE error.code = "ENOTFOUND" -> Err("dns", "", "", 0, "", "")
           [] error.code = "ECONNREFUSED" -> Err("refused", "", "", 0, "", "")
           [] error.code = "ETIMEDOUT" \/ error.timeout -> Err("timeout", "", "", 0, "", "")
           [] error.code = "ECONNRESET" -> Err("reset", "", "", 0, "", "")
           [] OTHER -> Err("network", "", "", 0, "", error.code)
    ELSE SetupError(error)

\* The catch block of the revision without validateStatus (lines 503-516).
MapErrorBasic(error) ==
    IF error.status # 0
    THEN Err("upgApiError", "", "", error.status, error.data, "")
    ELSE IF error.request
    THEN Err("noResponse", "", "", 0, "", "")
    ELSE SetupError(error)

MapError(rev, error) ==
    CASE rev = "retry" -> MapErrorRetry(error)
      [] rev = "noRetry" -> MapErrorNoRetry(error)
      [] rev = "basic" -> MapErrorBasic(error)

\* ------------------------------------------- services/upgService.js (sync)
requiredFields ==
    <<"amountTrxn", "currency", "mobileNumber", "merchantId", "terminalId", "merchantSecretKey">>

\* Mutant of FirstMissing: the secret key is left out of the required fields.
FirstMissingSkipsSecretKey(paymentData) ==
    IF \E i \in 1..(Len(requiredFields) - 1) : ~Truthy(paymentData[requiredFields[i]])
    THEN CHOOSE i \in 1..(Len(requiredFields) - 1) :
            /\ ~Truthy(paymentData[requiredFields[i]])
            /\ \A j \in 1..(i - 1) : Truthy(paymentData[requiredFields[j]])
    ELSE 0

\* The first required field that is missing or falsy, 0 when there is none.
FirstMissing(paymentData) ==
    IF \E i \in 1..Len(requiredFields) : ~Truthy(paymentData[requiredFields[i]])
    THEN CHOOSE i \in 1..Len(requiredFields) :
            /\ ~Truthy(paymentData[requiredFields[i]])
            /\ \A j \in 1..(i - 1) : Truthy(paymentData[requiredFields[j]])
    ELSE 0

\* Lines 256, 260 and 264: which of Tip and the two fee fields the payload gets.
PayloadHasTip(paymentData) == paymentData.tip = Bool(TRUE)

\* Mutant of PayloadHasFixed: the test on tip is dropped.
PayloadHasFixedIgnoringTip(paymentData) ==
    /\ Truthy(paymentData.convenienceFeeFixed)
    /\ ~Truthy(paymentData.convenienceFeePercentage)

PayloadHasFixed(paymentData) ==
    /\ Truthy(paymentData.convenienceFeeFixed)
    /\ ~Truthy(paymentData.tip)
    /\ ~Truthy(paymentData.convenienceFeePercentage)

PayloadHasPercentage(paymentData) ==
    /\ Truthy(paymentData.convenienceFeePercentage)
    /\ ~Truthy(paymentData.tip)
    /\ ~Truthy(paymentData.convenienceFeeFixed)

\* Mutant of IfTruthy: the field is always set, to '' when x is falsy.
IfTruthyOrEmpty(x) == IF Truthy(x) THEN x ELSE Str(<<>>)

\* x when it is truthy, else Undef: the optional fields copied under `if (x)`.
IfTruthy(x) == IF Truthy(x) THEN x ELSE Undef

\* The wire payload (lines 224-266); a field that was not set is Undef, which
\* JSON.stringify leaves out.
BuildPayload(paymentData, dateTimeLocalTrxn, secureHash) ==
    [AmountTrxn |-> parseInt(paymentData.amountTrxn),
     Currency |-> parseInt(paymentData.currency),
     MerchantReference |->
        IF Truthy(paymentData.merchantReference) THEN paymentData.merchantReference ELSE Str(<<>>),
     MobileNumber |-> paymentData.mobileNumber,
     MerchantId |-> paymentData.merchantId,
     TerminalId |-> paymentData.terminalId,
     DateTimeLocalTrxn |-> Str(dateTimeLocalTrxn),
     SecureHash |-> Str(secureHash),
     Validity |->
        IF Truthy(paymentData.validity) THEN Str(TemplateString(paymentData.validity)) ELSE Undef,
     LoyaltyNumber |-> IfTruthy(paymentData.loyaltyNumber),
     CustomerLabel |-> IfTruthy(paymentData.customerLabel),
     PurposeOfTransaction |-> IfTruthy(paymentData.purposeOfTransaction),
     BillNumber |-> IfTruthy(paymentData.billNumber),
     Tip |-> IF PayloadHasTip(paymentData) THEN Bool(TRUE) ELSE Undef,
     ConvenienceFeeFixed |->
        IF PayloadHasFixed(paymentData) THEN parseFloat(paymentData.convenienceFeeFixed) ELSE Undef,
     ConvenienceFeePercentage |->
        IF PayloadHasPercentage(paymentData)
        THEN parseFloat(paymentData.convenienceFeePercentage) ELSE Undef]

\* The fields of paymentData (JSDoc of requestToPay), and the object with none set.
PaymentFields ==
    {"amountTrxn", "currency", "mobileNumber", "merchantId", "terminalId",
     "merchantSecretKey", "merchantReference", "validity", "loyaltyNumber", "customerLabel",
     "purposeOfTransaction", "billNumber", "tip", "convenienceFeeFixed",
     "convenienceFeePercentage"}
NoPaymentData == [f \in PaymentFields |-> Undef]

NoPayload == BuildPayload(NoPaymentData, <<>>, <<>>)

\* A field is on the wire when it was set to something other than undefined.
Has(payload, field) == payload[field].t # "undef"

\* Mutant of Prepare: the signature is computed over the clock reading in
\* milliseconds, not over the token that is sent.
PrepareSigningClock(paymentData, t) ==
    LET miss == FirstMissing(paymentData)
        dateTimeLocalTrxn == generateTransactionDateTime(t)
        h == generateSecureHash(NatString(t), paymentData.merchantId,
                                paymentData.terminalId, paymentData.merchantSecretKey)
    IN IF miss # 0
       THEN [thrown |-> Raw("missingField", requiredFields[miss], "", <<>>, 0, "", FALSE),
             signed |-> FALSE, payload |-> NoPayload]
       ELSE IF ~h.ok
       THEN [thrown |-> Raw("secureHash", "", "", h.message, 0, "", FALSE),
             signed |-> TRUE, payload |-> NoPayload]
       ELSE [thrown |-> NoRaw, signed |-> TRUE,
             payload |-> BuildPayload(paymentData, dateTimeLocalTrxn, h.hash)]

\* requestToPay up to its first await (lines 204-272, the same in the three
\* revisions): [thrown, signed, payload]. thrown is NoRaw when the payload is
\* built and the first axios.post is about to start.
Prepare(paymentData, t) ==
    LET miss == FirstMissing(paymentData)
        dateTimeLocalTrxn == generateTransactionDateTime(t)
        h == generateSecureHash(dateTimeLocalTrxn, paymentData.merchantId,
                                paymentData.terminalId, paymentData.merchantSecretKey)
    IN IF miss # 0
       THEN [thrown |-> Raw("missingField", requiredFields[miss], "", <<>>, 0, "", FALSE),
             signed |-> FALSE, payload |-> NoPayload]
       ELSE IF ~h.ok
       THEN [thrown |-> Raw("secureHash", "", "", h.message, 0, "", FALSE),
             signed |-> TRUE, payload |-> NoPayload]
       ELSE [thrown |-> NoRaw, signed |-> TRUE,
             payload |-> BuildPayload(paymentData, dateTimeLocalTrxn, h.hash)]

\* ---------------------------------------------------------------- server.js
\* Lines 96-99: which fee fields the endpoint copies into paymentData.
ServerKeepsFixed(tip, convenienceFeeFixed, convenienceFeePercentage) ==
    Truthy(convenienceFeeFixed) /\ ~Truthy(tip)

ServerKeepsPercentage(tip, convenienceFeeFixed, convenienceFeePercentage) ==
    Truthy(convenienceFeePercentage) /\ ~Truthy(tip) /\ ~Truthy(convenienceFeeFixed)

\* x.trim() under `if (x)`: Undef when x is falsy; a truthy value that is not
\* a string has no trim method (TypeError).
TrimThrows(x) == Truthy(x) /\ x.t # "str"
TrimIfTruthy(x) == IF Truthy(x) THEN Str(Trim(x.s)) ELSE Undef

\* amountInPiasters (line 69)
amountInPiasters(body) == RoundTimes100(parseFloat(body.amount))

\* The handler up to the call of requestToPay (lines 46-101):
\* [step, paymentData], step being "required" or "positive" for the two 400
\* answers, "typeError" for an exception thrown while paymentData is built, and
\* "call" when requestToPay is invoked with paymentData.
Handle(body, config, t) ==
    LET empty == NoPaymentData
        paymentData ==
            [amountTrxn |-> amountInPiasters(body),
             currency |-> config.CURRENCY_EGP,
             mobileNumber |-> TrimIfTruthy(body.mobileNumber),
             merchantId |-> config.MERCHANT_ID,
             terminalId |-> config.TERMINAL_ID,
             merchantSecretKey |-> config.MERCHANT_SECRET_KEY,
             merchantReference |->
                IF Truthy(body.merchantReference) THEN body.merchantReference
                ELSE Str(<<"REF_">> \o NatString(t)),
             validity |-> IF Truthy(body.validity) THEN body.validity ELSE config.DEFAULT_VALIDITY,
             loyaltyNumber |-> TrimIfTruthy(body.loyaltyNumber),
             customerLabel |-> TrimIfTruthy(body.customerLabel),
             purposeOfTransaction |-> TrimIfTruthy(body.purposeOfTransaction),
             billNumber |-> TrimIfTruthy(body.billNumber),
             tip |-> IF body.tip = Str(<<"t", "r", "u", "e">>) THEN Bool(TRUE) ELSE Undef,
             convenienceFeeFixed |->
                IF ServerKeepsFixed(body.tip, body.convenienceFeeFixed, body.convenienceFeePercentage)
                THEN parseFloat(body.convenienceFeeFixed) ELSE Undef,
             convenienceFeePercentage |->
                IF ServerKeepsPercentage(body.tip, body.convenienceFeeFixed,
                                         body.convenienceFeePercentage)
                THEN parseFloat(body.convenienceFeePercentage) ELSE Undef]
    IN IF ~Truthy(body.amount) \/ ~Truthy(body.mobileNumber)
       THEN [step |-> "required", paymentData |-> empty]
       ELSE IF LessOrEqualZero(amountInPiasters(body))
       THEN [step |-> "positive", paymentData |-> empty]
       ELSE IF \/ TrimThrows(body.mobileNumber) \/ TrimThrows(body.loyaltyNumber)
               \/ TrimThrows(body.customerLabel) \/ TrimThrows(body.purposeOfTransaction)
               \/ TrimThrows(body.billNumber)
       THEN [step |-> "typeError", paymentData |-> empty]
       ELSE [step |-> "call", paymentData |-> paymentData]

\* ------------------------------------------------------------------ inputs
ValidMobile == Str(<<"0", "1", "0">>)
ValidKey == Str(<<"a", "b", "0", "1">>)

\* CONFIG (server.js lines 16-23) for each environment the process may start in.
Config(merchantId, terminalId, key) ==
    [MERCHANT_ID |-> merchantId, TERMINAL_ID |-> terminalId, MERCHANT_SECRET_KEY |-> key,
     CURRENCY_EGP |-> Whole(DefaultCurrency), DEFAULT_VALIDITY |-> Str(<<"3", "0">>)]
Configs ==
    { Config(Str(<<"M", "1">>), Str(<<"T", "1">>), ValidKey),
      Config(Undef, Str(<<"T", "1">>), ValidKey),
      Config(Str(<<"M", "1">>), Str(<<>>), ValidKey),
      Config(Str(<<"M", "1">>), Str(<<"T", "1">>), Undef) }

\* Bodies a client may post (req.body after body-parser: JSON or form values).
AmountInputs == {Undef, Str(<<"1", "0", ".", "5", "0">>), Str(<<"a", "b", "c">>), Str(<<"0">>)}
MobileInputs == {Undef, ValidMobile, Str(<<" ">>), Whole(10)}
TipInputs == {Undef, Bool(TRUE), Bool(FALSE), Str(<<"t", "r", "u", "e">>)}
FixedInputs == {Undef, Str(<<"5">>), Str(<<"0">>)}
PercentageInputs == {Undef, Str(<<"2", ".", "5">>)}
LoyaltyInputs == {Undef}
Bodies ==
    [amount : AmountInputs, mobileNumber : MobileInputs, merchantReference : {Undef},
     validity : {Undef}, loyaltyNumber : LoyaltyInputs, customerLabel : {Undef},
     purposeOfTransaction : {Undef}, billNumber : {Undef}, tip : TipInputs,
     convenienceFeeFixed : FixedInputs, convenienceFeePercentage : PercentageInputs]

\* paymentData objects another caller of the exported requestToPay may pass.
DirectInputs ==
    [amountTrxn : {Undef, Whole(1050)}, currency : {Undef, Whole(DefaultCurrency)},
     mobileNumber : {Undef, ValidMobile}, merchantId : {Undef, Str(<<"M", "1">>)},
     terminalId : {Undef, Str(<<"T", "1">>)}, merchantSecretKey : {Undef, ValidKey},
     merchantReference : {Undef}, validity : {Undef}, loyaltyNumber : {Undef},
     customerLabel : {Undef}, purposeOfTransaction : {Undef}, billNumber : {Undef},
     tip : {Undef, Bool(TRUE), Str(<<"t", "r", "u", "e">>)},
     convenienceFeeFixed : {Undef, Whole(5)},
     convenienceFeePercentage : {Undef, Num(2500)}]

NoBody == [f \in {"amount", "mobileNumber", "merchantReference", "validity", "loyaltyNumber",
                  "customerLabel", "purposeOfTransaction", "billNumber", "tip",
                  "convenienceFeeFixed", "convenienceFeePercentage"} |-> Undef]

\* ------------------------------------------------------------------- state
Reqs == 1..NumReqs

VARIABLES
    revision,       \* which revision of requestToPay is deployed
    CONFIG,         \* server.js CONFIG
    server,         \* "starting", "listening" or "exited"
    now,            \* wall clock, milliseconds
    pc,             \* per request: "idle", "calling", "backoff", "done"
    via,            \* per request: "none", "http" (the endpoint) or "direct"
    body,           \* per request: req.body
    invoked,        \* per request: requestToPay was called
    paymentData,    \* per request: the argument of requestToPay
    signed,         \* per request: generateSecureHash was called
    requestPayload, \* per request: the wire payload
    attempt,        \* per request: loop counter of the retry loop
    lastError,      \* per request: lastError of the retry loop
    sent,           \* per request: the payloads posted upstream, in order
    trace,          \* per request: posts, their outcomes and backoff timers
    result,         \* per request: what requestToPay returned or threw
    response        \* per request: the HTTP response of the endpoint

vars == <<revision, CONFIG, server, now, pc, via, body, invoked, paymentData, signed, requestPayload,
          attempt, lastError, sent, trace, result, response>>

\* An entry of trace: "post" (axios.post started), "ok" or "fail" (how it ended,
\* with the error code or the HTTP status and body), "delay" (backoff timer set,
\* ms its length) and "elapsed" (the timer fired); k is the attempt number.
Event(ev, k, ms, code, status, data) ==
    [ev |-> ev, k |-> k, ms |-> ms, code |-> code, status |-> status, data |-> data]

\* Mutant of BackoffDelay: the same delay before every attempt.
BackoffDelayConstant(k) == BackoffUnit

\* The backoff before the next attempt (line 319).
BackoffDelay(k) == k * BackoffUnit

\* Mutant of Thrown: the error is swallowed and nothing is thrown.
ThrownSwallowed(error) == [kind |-> "none", data |-> "", error |-> NoErr]

NoResult == [kind |-> "none", data |-> "", error |-> NoErr]
Returned(data) == [kind |-> "returned", data |-> data, error |-> NoErr]
Thrown(error) == [kind |-> "thrown", data |-> "", error |-> error]

\* res.status(..).json(..): the envelope with the keys it carries; count is the
\* number of responses written for the request.
Envelope(status, keys, success, data, error, amount) ==
    [count |-> 1, status |-> status, keys |-> keys, success |-> success, data |-> data,
     error |-> error, amount |-> amount]
NoResponse ==
    [count |-> 0, status |-> 0, keys |-> {}, success |-> FALSE, data |-> "", error |-> NoErr,
     amount |-> Undef]

\* Writing envelope e on a connection whose last state is prev.
Write(prev, e) == [e EXCEPT !.count = prev.count + 1]

\* Mutant of Respond: the error envelope carries a data key as well.
RespondErrorWithData(b, res) ==
    IF res.kind = "returned"
    THEN Envelope(200, {"success", "data", "paymentData"}, TRUE, res.data, NoErr, b.amount)
    ELSE Envelope(ServerErrorStatus, {"success", "data", "error"}, FALSE, "", res.error, Undef)

\* Lines 104-124 of server.js: the envelope for what requestToPay gave.
Respond(b, res) ==
    IF res.kind = "returned"
    THEN Envelope(200, {"success", "data", "paymentData"}, TRUE, res.data, NoErr, b.amount)
    ELSE Envelope(ServerErrorStatus, {"success", "error"}, FALSE, "", res.error, Undef)

\* GET /status (server.js lines 130-141): the config object of the answer.
StatusConfig(config) ==
    [merchantId |-> config.MERCHANT_ID, terminalId |-> config.TERMINAL_ID,
     currency |-> Str(<<"E", "G", "P", " ", "(", "8", "1", "8", ")">>)]

\* The process before it has started, in one of the given revisions and
\* environments.
Start(revisions, configs) ==
    /\ revision \in revisions
    /\ CONFIG \in configs
    /\ server = "starting"
    /\ now = 0
    /\ pc = [r \in Reqs |-> "idle"]
    /\ via = [r \in Reqs |-> "none"]
    /\ body = [r \in Reqs |-> NoBody]
    /\ invoked = [r \in Reqs |-> FALSE]
    /\ paymentData = [r \in Reqs |-> NoPaymentData]
    /\ signed = [r \in Reqs |-> FALSE]
    /\ requestPayload = [r \in Reqs |-> NoPayload]
    /\ attempt = [r \in Reqs |-> 0]
    /\ lastError = [r \in Reqs |-> NoRaw]
    /\ sent = [r \in Reqs |-> <<>>]
    /\ trace = [r \in Reqs |-> <<>>]
    /\ result = [r \in Reqs |-> NoResult]
    /\ response = [r \in Reqs |-> NoResponse]

Init == Start(Revisions, Configs)

\* Mutant of Startup: the secret key is not among the credentials checked.
StartupWithoutKeyCheck ==
    /\ server = "starting"
    /\ server' = IF Truthy(CONFIG.MERCHANT_ID) /\ Truthy(CONFIG.TERMINAL_ID)
                 THEN "listening" ELSE "exited"
    /\ UNCHANGED <<revision, CONFIG, now, pc, via, body, invoked, paymentData, signed, requestPayload,
                   attempt, lastError, sent, trace, result, response>>

\* server.js lines 26-30 and 166: exit when a credential is missing, else listen.
Startup ==
    /\ server = "starting"
    /\ server' = IF /\ Truthy(CONFIG.MERCHANT_ID) /\ Truthy(CONFIG.TERMINAL_ID)
                    /\ Truthy(CONFIG.MERCHANT_SECRET_KEY)
                 THEN "listening" ELSE "exited"
    /\ UNCHANGED <<revision, CONFIG, now, pc, via, body, invoked, paymentData, signed, requestPayload,
                   attempt, lastError, sent, trace, result, response>>

\* The wall clock advances.
Tick ==
    /\ now + TickMs <= MaxNow
    /\ now' = now + TickMs
    /\ UNCHANGED <<revision, CONFIG, server, pc, via, body, invoked, paymentData, signed, requestPayload,
                   attempt, lastError, sent, trace, result, response>>

\* requestToPay(pd) called for request r, run to its first await: either it
\* throws before any call (validation, signing) or the first post is in flight.
Invoke(r, how, b, pd) ==
    LET p == Prepare(pd, now)
        failed == p.thrown.src # "none"
        res == Thrown(MapError(revision, p.thrown))
    IN /\ via' = [via EXCEPT ![r] = how]
       /\ body' = [body EXCEPT ![r] = b]
       /\ invoked' = [invoked EXCEPT ![r] = TRUE]
       /\ paymentData' = [paymentData EXCEPT ![r] = pd]
       /\ signed' = [signed EXCEPT ![r] = p.signed]
       /\ requestPayload' = [requestPayload EXCEPT ![r] = p.payload]
       /\ lastError' = lastError
       /\ attempt' = [attempt EXCEPT ![r] = IF failed THEN 0 ELSE 1]
       /\ sent' = [sent EXCEPT ![r] = IF failed THEN <<>> ELSE <<p.payload>>]
       /\ trace' = [trace EXCEPT ![r] = IF failed THEN <<>> ELSE <<Event("post", 1, 0, "", 0, "")>>]
       /\ result' = [result EXCEPT ![r] = IF failed THEN res ELSE NoResult]
       /\ response' = [response EXCEPT ![r] =
                          IF failed /\ how = "http" THEN Write(@, Respond(b, res)) ELSE @]
       /\ pc' = [pc EXCEPT ![r] = IF failed THEN "done" ELSE "calling"]

\* POST /api/request-to-pay with body b (server.js lines 44-125).
Receive(r, b) ==
    LET h == Handle(b, CONFIG, now)
        reject ==
            CASE h.step = "required" ->
                    Envelope(400, {"success", "error"}, FALSE, "",
                             Err("requiredFields", "", "", 0, "", ""), Undef)
              [] h.step = "positive" ->
                    Envelope(400, {"success", "error"}, FALSE, "",
                             Err("greaterThanZero", "", "", 0, "", ""), Undef)
              [] OTHER ->
                    Envelope(ServerErrorStatus, {"success", "error"}, FALSE, "",
                             Err("typeError", "", "", 0, "", ""), Undef)
    IN /\ server = "listening"
       /\ pc[r] = "idle"
       /\ IF h.step = "call"
          THEN Invoke(r, "http", b, h.paymentData)
          ELSE /\ via' = [via EXCEPT ![r] = "http"]
               /\ body' = [body EXCEPT ![r] = b]
               /\ response' = [response EXCEPT ![r] = Write(@, reject)]
               /\ pc' = [pc EXCEPT ![r] = "done"]
               /\ UNCHANGED <<invoked, paymentData, signed, requestPayload, attempt, lastError,
                              sent, trace, result>>
       /\ UNCHANGED <<revision, CONFIG, server, now>>

\* requestToPay(pd) called by another importer of the module, in the running
\* process.
DirectCall(r, pd) ==
    /\ server = "listening"
    /\ pc[r] = "idle"
    /\ Invoke(r, "direct", NoBody, pd)
    /\ UNCHANGED <<revision, CONFIG, server, now>>

\* Mutant of Settle: what is thrown in the end is the first failure of the
\* invocation, not the last.
SettleThrowingFirstError(r, o) ==
    LET error == AxiosError(revision, o)
        ok == error.src = "none"
        retry == ~ok /\ ShouldRetry(revision, attempt[r], error)
        first == IF lastError[r].src = "none" THEN error ELSE lastError[r]
        res == IF ok THEN Returned(o.data) ELSE Thrown(MapError(revision, first))
    IN /\ pc[r] = "calling"
       /\ lastError' = [lastError EXCEPT ![r] = IF ok THEN @ ELSE first]
       /\ trace' = [trace EXCEPT ![r] =
                       @ \o (IF ok THEN <<Event("ok", attempt[r], 0, "", o.status, o.data)>>
                             ELSE IF retry
                             THEN <<Event("fail", attempt[r], 0, error.code, o.status, o.data),
                                    Event("delay", attempt[r], BackoffDelay(attempt[r]), "", 0, "")>>
                             ELSE <<Event("fail", attempt[r], 0, error.code, o.status, o.data)>>)]
       /\ result' = [result EXCEPT ![r] = IF retry THEN @ ELSE res]
       /\ response' = [response EXCEPT ![r] =
                          IF ~retry /\ via[r] = "http" THEN Write(@, Respond(body[r], res)) ELSE @]
       /\ pc' = [pc EXCEPT ![r] = IF retry THEN "backoff" ELSE "done"]
       /\ UNCHANGED <<revision, CONFIG, server, now, via, body, invoked, paymentData, signed,
                      requestPayload, attempt, sent>>

\* The post in flight for r completes with outcome o: requestToPay returns
\* response.data, or catches the error and either schedules a retry or throws.
Settle(r, o) ==
    LET error == AxiosError(revision, o)
        ok == error.src = "none"
        retry == ~ok /\ ShouldRetry(revision, attempt[r], error)
        res == IF ok THEN Returned(o.data) ELSE Thrown(MapError(revision, error))
    IN /\ pc[r] = "calling"
       /\ lastError' = [lastError EXCEPT ![r] = IF ok THEN @ ELSE error]
       /\ trace' = [trace EXCEPT ![r] =
                       @ \o (IF ok THEN <<Event("ok", attempt[r], 0, "", o.status, o.data)>>
                             ELSE IF retry
                             THEN <<Event("fail", attempt[r], 0, error.code, o.status, o.data),
                                    Event("delay", attempt[r], BackoffDelay(attempt[r]), "", 0, "")>>
                             ELSE <<Event("fail", attempt[r], 0, error.code, o.status, o.data)>>)]
       /\ result' = [result EXCEPT ![r] = IF retry THEN @ ELSE res]
       /\ response' = [response EXCEPT ![r] =
                          IF ~retry /\ via[r] = "http" THEN Write(@, Respond(body[r], res)) ELSE @]
       /\ pc' = [pc EXCEPT ![r] = IF retry THEN "backoff" ELSE "done"]
       /\ UNCHANGED <<revision, CONFIG, server, now, via, body, invoked, paymentData, signed,
                      requestPayload, attempt, sent>>

\* Mutant of BackoffElapsed: the retry builds and signs the payload again, at
\* the clock reading of the retry.
BackoffElapsedSigningAgain(r) ==
    /\ pc[r] = "backoff"
    /\ attempt' = [attempt EXCEPT ![r] = @ + 1]
    /\ sent' = [sent EXCEPT ![r] = Append(@, Prepare(paymentData[r], now).payload)]
    /\ trace' = [trace EXCEPT ![r] = @ \o <<Event("elapsed", attempt[r], 0, "", 0, ""),
                                            Event("post", attempt[r] + 1, 0, "", 0, "")>>]
    /\ pc' = [pc EXCEPT ![r] = "calling"]
    /\ UNCHANGED <<revision, CONFIG, server, now, via, body, invoked, paymentData, signed,
                   requestPayload, lastError, result, response>>

\* Mutant of BackoffElapsed: the attempt counter is shared by the requests.
BackoffElapsedSharedCounter(r) ==
    /\ pc[r] = "backoff"
    /\ attempt' = [q \in Reqs |-> attempt[q] + 1]
    /\ sent' = [sent EXCEPT ![r] = Append(@, requestPayload[r])]
    /\ trace' = [trace EXCEPT ![r] = @ \o <<Event("elapsed", attempt[r], 0, "", 0, ""),
                                            Event("post", attempt[r] + 1, 0, "", 0, "")>>]
    /\ pc' = [pc EXCEPT ![r] = "calling"]
    /\ UNCHANGED <<revision, CONFIG, server, now, via, body, invoked, paymentData, signed,
                   requestPayload, lastError, result, response>>

\* The backoff timer of r fires: the loop continues with the next attempt.
BackoffElapsed(r) ==
    /\ pc[r] = "backoff"
    /\ attempt' = [attempt EXCEPT ![r] = @ + 1]
    /\ sent' = [sent EXCEPT ![r] = Append(@, requestPayload[r])]
    /\ trace' = [trace EXCEPT ![r] = @ \o <<Event("elapsed", attempt[r], 0, "", 0, ""),
                                            Event("post", attempt[r] + 1, 0, "", 0, "")>>]
    /\ pc' = [pc EXCEPT ![r] = "calling"]
    /\ UNCHANGED <<revision, CONFIG, server, now, via, body, invoked, paymentData, signed,
                   requestPayload, lastError, result, response>>

\* One request slot is driven; the other slots stay idle.
Active == {1}

Next ==
    \/ Startup
    \/ Tick
    \/ \E r \in Active, b \in Bodies : Receive(r, b)
    \/ \E r \in Active, pd \in DirectInputs : DirectCall(r, pd)
    \/ \E r \in Active, o \in Outcomes : Settle(r, o)
    \/ \E r \in Active : BackoffElapsed(r)

Spec == Init /\ [][Next]_vars

\* ------------------------------------- the endpoint over amounts and fields
\* Environments: the secret key as valid hex, with a character that is not a
\* hex digit, and with an odd number of hex digits; DEFAULT_CURRENCY unset
\* (818) or set to 840.
NonHexKey == Str(<<"z", "z">>)
OddKey == Str(<<"a", "b", "0">>)
FieldConfigs ==
    { Config(Str(<<"M", "1">>), Str(<<"T", "1">>), ValidKey),
      [Config(Str(<<"M", "1">>), Str(<<"T", "1">>), ValidKey)
          EXCEPT !.CURRENCY_EGP = Whole(840)],
      Config(Str(<<"M", "1">>), Str(<<"T", "1">>), NonHexKey),
      Config(Str(<<"M", "1">>), Str(<<"T", "1">>), OddKey) }

\* Amounts as a form posts them (strings) and as the page's script posts them
\* (numbers): two decimals, not a number, zero, negative, infinite, below half
\* a piaster, half a piaster, a fraction of a piaster above a whole number.
AmountRange ==
    { Undef, Str(<<"1", "0", ".", "5", "0">>), Num(10500), Str(<<"a", "b", "c">>),
      Str(<<"0">>), Whole(0), Str(<<"-", "5">>),
      Str(<<"I", "n", "f", "i", "n", "i", "t", "y">>),
      Str(<<"0", ".", "0", "0", "1">>), Str(<<"0", ".", "0", "0", "5">>),
      Str(<<"1", "0", ".", "5", "0", "6">>) }
AmountBodies ==
    { [NoBody EXCEPT !.amount = a, !.mobileNumber = m] :
        a \in AmountRange, m \in {Undef, ValidMobile, Str(<<" ">>)} }

\* Bodies with a valid amount and mobile number and the optional fields given,
\* blank, or left out.
OptionalBodies ==
    { [NoBody EXCEPT !.amount = Str(<<"1", "0", ".", "5", "0">>), !.mobileNumber = ValidMobile,
                     !.merchantReference = o[1], !.validity = o[2], !.loyaltyNumber = o[3],
                     !.customerLabel = o[4], !.purposeOfTransaction = o[5],
                     !.billNumber = o[6], !.tip = o[7]] :
        o \in {Undef, Str(<<"R">>)} \X {Undef, Str(<<"6", "0">>)}
                \X {Undef, Str(<<" ", "L", " ">>), Str(<<" ">>)}
                \X {Undef, Str(<<"C">>)} \X {Undef, Str(<<"P">>)} \X {Undef, Str(<<"B">>)}
                \X {Undef, Str(<<"t", "r", "u", "e">>)} }
FieldBodies == AmountBodies \cup OptionalBodies

\* paymentData of a direct call: the secret key a string or a number, the
\* optional fields given, empty, or left out, the tip flag in every form.
FieldInputs ==
    { [NoPaymentData EXCEPT !.amountTrxn = Whole(1050), !.currency = Whole(DefaultCurrency),
                            !.mobileNumber = ValidMobile, !.merchantId = Str(<<"M", "1">>),
                            !.terminalId = Str(<<"T", "1">>), !.merchantSecretKey = o[1],
                            !.validity = o[2], !.loyaltyNumber = o[3], !.tip = o[4]] :
        o \in {ValidKey, Whole(1234)} \X {Undef, Whole(30)} \X {Undef, Str(<<>>), Str(<<"L">>)}
                \X {Undef, Bool(TRUE), Bool(FALSE), Str(<<"t", "r", "u", "e">>)} }

\* Upstream answers: success, a 500, a timeout.
FieldOutcomes ==
    {o \in Outcomes :
        \/ o.kind = "response" /\ o.data \in {"SuccessTrue", "ServerError"}
        \/ o.code = "ECONNABORTED"}

InitFields == Start({"retry"}, FieldConfigs)

NextFields ==
    \/ Startup
    \/ Tick
    \/ \E r \in Active, b \in FieldBodies : Receive(r, b)
    \/ \E r \in Active, pd \in FieldInputs : DirectCall(r, pd)
    \/ \E r \in Active, o \in FieldOutcomes : Settle(r, o)
    \/ \E r \in Active : BackoffElapsed(r)

SpecFields == InitFields /\ [][NextFields]_vars

\* ------------------------------------------------------- properties: C1-C5
RequiredNames ==
    {"amountTrxn", "currency", "mobileNumber", "merchantId", "terminalId", "merchantSecretKey"}
SomeRequiredMissing(pd) == \E f \in RequiredNames : ~Truthy(pd[f])
NoOutboundCall(r) == sent[r] = <<>> /\ trace[r] = <<>> /\ attempt[r] = 0

\* C1: whenever requestToPay is called with a required field missing or falsy,
\* it throws a "Missing required field" error that names a required field which
\* is missing, no outbound call is made and nothing is signed, at any point of
\* the invocation; and a body without amount or mobileNumber is answered 400 by
\* the endpoint without requestToPay being called.
C1_MissingFieldRejectedBeforeAnyCall ==
    \A r \in Reqs :
        /\ (invoked[r] /\ SomeRequiredMissing(paymentData[r])) =>
              /\ pc[r] = "done"
              /\ result[r].kind = "thrown"
              /\ result[r].error.inner = "missingField"
              /\ result[r].error.field \in RequiredNames
              /\ ~Truthy(paymentData[r][result[r].error.field])
              /\ NoOutboundCall(r)
              /\ ~signed[r]
        /\ (via[r] = "http" /\ (~Truthy(body[r].amount) \/ ~Truthy(body[r].mobileNumber))) =>
              /\ ~invoked[r]
              /\ response[r].status = 400
              /\ ~response[r].success
              /\ NoOutboundCall(r)
              /\ ~signed[r]

\* C1 witness: a direct call in which only the last required field, the secret
\* key, is missing has been rejected.
C1_Witness ==
    \E r \in Reqs :
        /\ via[r] = "direct"
        /\ invoked[r]
        /\ \A f \in RequiredNames : Truthy(paymentData[r][f]) <=> f # "merchantSecretKey"
        /\ result[r].error.field = "merchantSecretKey"

RetryClass == {"ECONNABORTED", "ETIMEDOUT", "ECONNRESET"}
NoRetryCodes == {"ENOTFOUND", "ECONNREFUSED"}

\* C2: a further attempt is made only after a failure of the timeout /
\* connection-reset / abort class that came without an upstream response; a
\* failure that carries an upstream response, a DNS failure and a refused
\* connection are each the last event of the invocation, whatever the attempt.
C2_RetryOnlyAfterTimeoutClass ==
    \A r \in Reqs : \A i \in 1..Len(trace[r]) :
        /\ (trace[r][i].ev = "fail" /\ i < Len(trace[r])) =>
              trace[r][i].code \in RetryClass /\ trace[r][i].status = 0
        /\ (trace[r][i].ev = "fail"
              /\ (trace[r][i].status # 0 \/ trace[r][i].code \in NoRetryCodes)) =>
              i = Len(trace[r]) /\ pc[r] = "done"

\* C2 witness: a second attempt is in flight after a connection reset, and a
\* state where an HTTP 500 answer to a second attempt ended the invocation.
C2_Witness ==
    \E r \in Reqs :
        /\ Len(trace[r]) = 6
        /\ trace[r][2].code = "ECONNRESET"
        /\ trace[r][6].ev = "fail"
        /\ trace[r][6].status = 500
        /\ trace[r][6].k = 2

Posts(r) == {i \in 1..Len(trace[r]) : trace[r][i].ev = "post"}

\* C3: an invocation makes at most 3 outbound calls; call k+1 starts only after
\* call k has failed and the backoff timer set after that failure has fired; a
\* call in flight is the last event until it ends; nothing follows a success.
C3_AtMostThreeSequentialCalls ==
    \A r \in Reqs :
        /\ Cardinality(Posts(r)) <= 3
        /\ Len(sent[r]) = Cardinality(Posts(r))
        /\ \A i \in Posts(r) :
              /\ trace[r][i].k = Cardinality({j \in Posts(r) : j <= i})
              /\ i < Len(trace[r]) =>
                    trace[r][i + 1].ev \in {"ok", "fail"} /\ trace[r][i + 1].k = trace[r][i].k
              /\ trace[r][i].k > 1 =>
                    /\ i > 3
                    /\ trace[r][i - 1].ev = "elapsed" /\ trace[r][i - 1].k = trace[r][i].k - 1
                    /\ trace[r][i - 2].ev = "delay" /\ trace[r][i - 2].k = trace[r][i].k - 1
                    /\ trace[r][i - 3].ev = "fail" /\ trace[r][i - 3].k = trace[r][i].k - 1
        /\ \A i \in 1..Len(trace[r]) : trace[r][i].ev = "ok" => i = Len(trace[r])

\* C3 witness: the third call has been made and has failed with a timeout.
C3_Witness ==
    \E r \in Reqs :
        /\ Cardinality(Posts(r)) = 3
        /\ pc[r] = "done"
        /\ trace[r][Len(trace[r])].ev = "fail"
        /\ trace[r][Len(trace[r])].code = "ECONNABORTED"

TimeoutCodes == {"ECONNABORTED", "ETIMEDOUT"}
TwoTimeoutsThenSuccess(r) ==
    /\ Len(trace[r]) = 10
    /\ trace[r][2].ev = "fail" /\ trace[r][2].code \in TimeoutCodes
    /\ trace[r][6].ev = "fail" /\ trace[r][6].code \in TimeoutCodes
    /\ trace[r][10].ev = "ok"

\* C4: when attempts 1 and 2 time out and attempt 3 succeeds, requestToPay
\* returns the body of the third response and throws nothing, a backoff of
\* 3000 ms was waited before attempt 2 and one of 6000 ms before attempt 3.
C4_TwoTimeoutsThenSuccess ==
    \A r \in Reqs :
        TwoTimeoutsThenSuccess(r) =>
            /\ result[r] = Returned(trace[r][10].data)
            /\ trace[r][3].ev = "delay" /\ trace[r][3].ms = 3000
            /\ trace[r][4].ev = "elapsed" /\ trace[r][5].ev = "post" /\ trace[r][5].k = 2
            /\ trace[r][7].ev = "delay" /\ trace[r][7].ms = 6000
            /\ trace[r][8].ev = "elapsed" /\ trace[r][9].ev = "post" /\ trace[r][9].k = 3
            /\ trace[r][3].ms < trace[r][7].ms

\* C4 witness: two timeouts, then a third answer whose body says Success.
C4_Witness ==
    \E r \in Reqs :
        /\ TwoTimeoutsThenSuccess(r)
        /\ trace[r][2].code = "ECONNABORTED"
        /\ trace[r][6].code = "ECONNABORTED"
        /\ trace[r][10].data = "SuccessTrue"
        /\ via[r] = "http"

EndedWithDnsFailure(r) ==
    /\ pc[r] = "done"
    /\ trace[r] # <<>>
    /\ trace[r][Len(trace[r])].ev = "fail"
    /\ trace[r][Len(trace[r])].code = "ENOTFOUND"

\* C5: in the revision with the retry loop, an invocation whose last attempt
\* failed with ENOTFOUND throws the DNS-resolution error, whether that attempt
\* was the first (DNS failures are not retried, so it is then the only one) or
\* the last permitted one; an all-ENOTFOUND invocation makes exactly one attempt.
C5_DnsFailureCategory ==
    \A r \in Reqs :
        (revision = "retry" /\ EndedWithDnsFailure(r)) =>
            /\ result[r].kind = "thrown"
            /\ result[r].error.kind = "dns"
            /\ (\A i \in 1..Len(trace[r]) :
                    trace[r][i].ev = "fail" => trace[r][i].code = "ENOTFOUND")
                => Len(trace[r]) = 2

\* C5 witness: ENOTFOUND on the third, last permitted attempt.
C5_Witness ==
    \E r \in Reqs :
        /\ revision = "retry"
        /\ EndedWithDnsFailure(r)
        /\ trace[r][Len(trace[r])].k = maxRetries

\* ------------------------------------------------------ properties: C6-C10
LastEvent(r) == trace[r][Len(trace[r])]
CategorizingRevisions == {"retry", "noRetry"}

\* The category an error message of requestToPay belongs to.
Category(kind) ==
    CASE kind = "dns" -> "dns"
      [] kind = "refused" -> "refused"
      [] kind \in {"timeout", "timeoutAfter90"} -> "timeout"
      [] kind = "reset" -> "reset"
      [] kind \in {"network", "noResponse"} -> "other"
      [] OTHER -> "none"

\* The category C6 assigns to a failure code.
CategoryOfCode(code) ==
    CASE code = "ENOTFOUND" -> "dns"
      [] code = "ECONNREFUSED" -> "refused"
      [] code \in {"ETIMEDOUT", "ECONNABORTED"} -> "timeout"
      [] code = "ECONNRESET" -> "reset"
      [] OTHER -> "other"

\* C6: in the two revisions that categorize transport failures, an invocation
\* that ends with a transport failure (no response received) throws the error
\* of the category its failure code determines: ENOTFOUND dns, ECONNREFUSED
\* refused, ETIMEDOUT and ECONNABORTED timeout, ECONNRESET reset, else other.
C6_TransportCategoryByCode ==
    \A r \in Reqs :
        (/\ revision \in CategorizingRevisions
         /\ pc[r] = "done" /\ trace[r] # <<>>
         /\ LastEvent(r).ev = "fail" /\ LastEvent(r).status = 0) =>
            /\ result[r].kind = "thrown"
            /\ Category(result[r].error.kind) = CategoryOfCode(LastEvent(r).code)

\* C7: an upstream response with a status below 500 makes requestToPay return
\* that response's body and throw nothing, and the endpoint answer 200 with
\* success = true and data equal to the body.
C7_BelowServerErrorPassesThrough ==
    \A r \in Reqs :
        (/\ pc[r] = "done" /\ trace[r] # <<>>
         /\ LastEvent(r).status # 0 /\ LastEvent(r).status < 500) =>
            /\ result[r] = Returned(LastEvent(r).data)
            /\ via[r] = "http" =>
                  /\ response[r].success
                  /\ "data" \in response[r].keys
                  /\ response[r].data = LastEvent(r).data

\* The tip flag and the two fees as the caller gave them: in the posted body
\* for the endpoint, in paymentData for a direct call.
InTip(r) == IF via[r] = "http" THEN body[r].tip ELSE paymentData[r].tip
InFixed(r) ==
    IF via[r] = "http" THEN body[r].convenienceFeeFixed ELSE paymentData[r].convenienceFeeFixed
InPercentage(r) ==
    IF via[r] = "http" THEN body[r].convenienceFeePercentage
    ELSE paymentData[r].convenienceFeePercentage

\* A fee is supplied when it reads as a number other than zero.
FeeSupplied(x) == Truthy(parseFloat(x))

\* C8: in every payload sent, when a fixed and a percentage fee were both
\* supplied without a tip flag the payload has ConvenienceFeeFixed and not
\* ConvenienceFeePercentage, and when a tip flag was supplied it has neither,
\* for bodies posted to the endpoint and for paymentData passed directly.
C8_FixedFeeWinsTipSuppresses ==
    \A r \in Reqs : \A i \in 1..Len(sent[r]) :
        /\ (FeeSupplied(InFixed(r)) /\ FeeSupplied(InPercentage(r)) /\ ~Truthy(InTip(r))) =>
              /\ Has(sent[r][i], "ConvenienceFeeFixed")
              /\ ~Has(sent[r][i], "ConvenienceFeePercentage")
        /\ Truthy(InTip(r)) =>
              /\ ~Has(sent[r][i], "ConvenienceFeeFixed")
              /\ ~Has(sent[r][i], "ConvenienceFeePercentage")

\* The set of fee fields each layer keeps for a (tip, fixed, percentage) triple.
ServerKept(tip, fixed, percentage) ==
    (IF ServerKeepsFixed(tip, fixed, percentage) THEN {"fixed"} ELSE {})
        \cup (IF ServerKeepsPercentage(tip, fixed, percentage) THEN {"percentage"} ELSE {})
PayloadKept(tip, fixed, percentage) ==
    LET pd == [NoPaymentData EXCEPT !.tip = tip, !.convenienceFeeFixed = fixed,
                                    !.convenienceFeePercentage = percentage]
    IN (IF PayloadHasFixed(pd) THEN {"fixed"} ELSE {})
        \cup (IF PayloadHasPercentage(pd) THEN {"percentage"} ELSE {})

\* C9: for the (tip, fixed fee, percentage fee) of every request handled, the
\* set of fee fields the endpoint's rule keeps equals the set requestToPay's
\* rule keeps for the same three inputs.
C9_SameFeeRuleInBothLayers ==
    \A r \in Reqs :
        via[r] # "none" =>
            ServerKept(InTip(r), InFixed(r), InPercentage(r))
                = PayloadKept(InTip(r), InFixed(r), InPercentage(r))

\* C10: no payload sent has both ConvenienceFeeFixed and
\* ConvenienceFeePercentage, and none has a fee field together with Tip = true.
C10_FeeFieldsMutuallyExclusive ==
    \A r \in Reqs : \A i \in 1..Len(sent[r]) :
        /\ ~(Has(sent[r][i], "ConvenienceFeeFixed") /\ Has(sent[r][i], "ConvenienceFeePercentage"))
        /\ sent[r][i].Tip = Bool(TRUE) =>
              /\ ~Has(sent[r][i], "ConvenienceFeeFixed")
              /\ ~Has(sent[r][i], "ConvenienceFeePercentage")

\* C10 witness: paymentData with tip = true and a fixed fee was sent, and the
\* payload has Tip and no fee.
C10_Witness ==
    \E r \in Reqs :
        /\ via[r] = "direct"
        /\ sent[r] # <<>>
        /\ paymentData[r].tip = Bool(TRUE)
        /\ Truthy(paymentData[r].convenienceFeeFixed)
        /\ sent[r][1].Tip = Bool(TRUE)

\* ------------------------------------------------- concurrent requests
\* Every request slot is driven: requests are received while others are in
\* flight, in one running environment, and each call succeeds or times out.
ConcBodies ==
    { [NoBody EXCEPT !.amount = a, !.mobileNumber = ValidMobile] :
        a \in {Str(<<"1", "0", ".", "5", "0">>), Str(<<"0">>)} }
ConcOutcomes ==
    {o \in Outcomes : (o.kind = "response" /\ o.data = "SuccessTrue") \/ o.code = "ECONNABORTED"}

InitConc == Start({"retry"}, {Config(Str(<<"M", "1">>), Str(<<"T", "1">>), ValidKey)})

NextConc ==
    \/ Startup
    \/ Tick
    \/ \E r \in Reqs, b \in ConcBodies : Receive(r, b)
    \/ \E r \in Reqs, o \in ConcOutcomes : Settle(r, o)
    \/ \E r \in Reqs : BackoffElapsed(r)

SpecConc == InitConc /\ [][NextConc]_vars

\* ------------------------------------------------------ the signer's inputs
\* Calls of requestToPay that differ from the first one in one field: the
\* amount, the merchant id, the terminal id, or the secret key (in upper case,
\* with a trailing 00 byte, with a trailing odd digit, other digits). Every
\* call is answered; the clock gives the timestamp token.
SignBase ==
    [NoPaymentData EXCEPT !.amountTrxn = Whole(1050), !.currency = Whole(DefaultCurrency),
                          !.mobileNumber = ValidMobile, !.merchantId = Str(<<"M", "1">>),
                          !.terminalId = Str(<<"T", "1">>), !.merchantSecretKey = ValidKey]
SignInputs ==
    { SignBase,
      [SignBase EXCEPT !.amountTrxn = Whole(2000)],
      [SignBase EXCEPT !.merchantId = Str(<<"M", "2">>)],
      [SignBase EXCEPT !.terminalId = Str(<<"T", "2">>)],
      [SignBase EXCEPT !.merchantSecretKey = Str(<<"A", "B", "0", "1">>)],
      [SignBase EXCEPT !.merchantSecretKey = Str(<<"a", "b", "0", "1", "0", "0">>)],
      [SignBase EXCEPT !.merchantSecretKey = Str(<<"a", "b", "0", "1", "f">>)],
      [SignBase EXCEPT !.merchantSecretKey = Str(<<"c", "d", "0", "2">>)] }
SignOutcomes == {o \in Outcomes : o.kind = "response" /\ o.data = "SuccessTrue"}

InitSign == Start({"retry"}, {Config(Str(<<"M", "1">>), Str(<<"T", "1">>), ValidKey)})

NextSign ==
    \/ Startup
    \/ Tick
    \/ \E r \in Reqs, pd \in SignInputs : DirectCall(r, pd)
    \/ \E r \in Reqs, o \in SignOutcomes : Settle(r, o)

SpecSign == InitSign /\ [][NextSign]_vars

\* ------------------------------------------------------------ termination
\* One request with every upstream outcome, where an attempt in flight ends
\* (axios enforces the timeout of axiosConfig) and a backoff timer set fires.
InitLive == Start(Revisions, {Config(Str(<<"M", "1">>), Str(<<"T", "1">>), ValidKey)})

NextLive ==
    \/ Startup
    \/ Tick
    \/ \E r \in Active, b \in ConcBodies : Receive(r, b)
    \/ \E r \in Active, o \in Outcomes : Settle(r, o)
    \/ \E r \in Active : BackoffElapsed(r)

SpecLive ==
    /\ InitLive
    /\ [][NextLive]_vars
    /\ \A r \in Active : WF_vars(\E o \in Outcomes : Settle(r, o))
    /\ \A r \in Active : WF_vars(BackoffElapsed(r))

\* ----------------------------------------------------- properties: C11-C20
\* The text q occurs in the message (a sequence of words and characters).
Occurs(q, message) ==
    /\ q # <<>>
    /\ \E i \in 1..(Len(message) - Len(q) + 1) : SubSeq(message, i, i + Len(q) - 1) = q

\* The secret key a request was signed with, as text.
KeyText(r) == TemplateString(paymentData[r].merchantSecretKey)

\* C11: for every invocation with a secret key, the message of the error
\* requestToPay throws and the error of the endpoint's envelope do not contain
\* the secret key, and no value of the /status answer is the secret key.
C11_SecretKeyNeverInErrors ==
    /\ \A r \in Reqs :
          (invoked[r] /\ Truthy(paymentData[r].merchantSecretKey)) =>
              /\ ~Occurs(KeyText(r), result[r].error.message)
              /\ ~Occurs(KeyText(r), response[r].error.message)
    /\ server = "listening" =>
          \A f \in DOMAIN StatusConfig(CONFIG) :
              StatusConfig(CONFIG)[f] # CONFIG.MERCHANT_SECRET_KEY

\* A body that fails validation of a required field: amount or mobile number
\* missing, or an amount that is not a number, zero or negative.
InvalidRequired(b) ==
    \/ ~Truthy(b.amount)
    \/ ~Truthy(b.mobileNumber)
    \/ parseFloat(b.amount).t = "nan"
    \/ parseFloat(b.amount).t = "num" /\ parseFloat(b.amount).n <= 0

\* C12: a posted body that fails validation of a required field is answered
\* with a 4xx status and an error envelope, never with a 5xx status.
C12_ValidationFailureAnswered4xx ==
    \A r \in Reqs :
        (via[r] = "http" /\ InvalidRequired(body[r])) =>
            /\ response[r].status >= 400 /\ response[r].status < 500
            /\ ~response[r].success
            /\ "error" \in response[r].keys

\* C13: no two distinct requests send upstream the same pair of
\* DateTimeLocalTrxn and SecureHash.
C13_TokenAndSignatureNeverShared ==
    \A r1 \in Reqs : \A r2 \in Reqs \ {r1} :
        \A i \in 1..Len(sent[r1]) : \A j \in 1..Len(sent[r2]) :
            <<sent[r1][i].DateTimeLocalTrxn, sent[r1][i].SecureHash>>
                # <<sent[r2][j].DateTimeLocalTrxn, sent[r2][j].SecureHash>>

\* The four arguments generateSecureHash got for request r, and whether two
\* requests gave it the same four.
SignArgs(r) ==
    <<requestPayload[r].DateTimeLocalTrxn, paymentData[r].merchantId, paymentData[r].terminalId,
      paymentData[r].merchantSecretKey>>
Signed(r) == sent[r] # <<>>

Differing(r1, r2) == {i \in 1..4 : SignArgs(r1)[i] # SignArgs(r2)[i]}

\* C15: two requests whose arguments to generateSecureHash differ in exactly
\* one of the four send different SecureHash values.
C15_AnyInputChangeChangesSignature ==
    \A r1 \in Reqs : \A r2 \in Reqs :
        (Signed(r1) /\ Signed(r2) /\ Cardinality(Differing(r1, r2)) = 1) =>
            requestPayload[r1].SecureHash # requestPayload[r2].SecureHash

\* The HMAC key of request r: the bytes decoded from the hex string, up to
\* trailing zero bytes.
HmacKey(r) == ZeroPadKey(BufferFromHex(paymentData[r].merchantSecretKey.s))

\* C15 amended: two requests send the same SecureHash exactly when their
\* timestamp token, merchant id and terminal id are the same and their secret
\* keys decode to the same HMAC key; key strings that differ only in letter
\* case, in what follows the last whole pair of hex digits, or in trailing 00
\* bytes are the same key.
C15_SignatureChangesWithDecodedInputs ==
    \A r1 \in Reqs : \A r2 \in Reqs :
        (Signed(r1) /\ Signed(r2)) =>
            (requestPayload[r1].SecureHash = requestPayload[r2].SecureHash
                <=> /\ \A i \in 1..3 : SignArgs(r1)[i] = SignArgs(r2)[i]
                    /\ HmacKey(r1) = HmacKey(r2))

\* C15 witness: two requests that differ only in the letter case of the key
\* have sent the same SecureHash, and a third key has given another one.
C15_Witness ==
    \E r1 \in Reqs : \E r2 \in Reqs :
        /\ Signed(r1) /\ Signed(r2)
        /\ Differing(r1, r2) = {4}
        /\ paymentData[r1].merchantSecretKey = ValidKey
        /\ paymentData[r2].merchantSecretKey = Str(<<"A", "B", "0", "1">>)
        /\ requestPayload[r1].SecureHash = requestPayload[r2].SecureHash

\* A string of hex digits, two per byte.
ValidHex(q) == Len(q) % 2 = 0 /\ \A i \in 1..Len(q) : IsHex(q[i])

\* C16: when requestToPay is called with every required field present and a
\* secret key string that is not valid hex, signing fails: requestToPay throws
\* the secure-hash error, no outbound call is made, and the endpoint answers
\* with an internal error.
C16_InvalidHexKeyFailsBeforeAnyCall ==
    \A r \in Reqs :
        (/\ invoked[r] /\ ~SomeRequiredMissing(paymentData[r])
         /\ paymentData[r].merchantSecretKey.t = "str"
         /\ ~ValidHex(paymentData[r].merchantSecretKey.s)) =>
            /\ result[r].kind = "thrown"
            /\ result[r].error.inner = "secureHash"
            /\ NoOutboundCall(r)
            /\ via[r] = "http" => response[r].status = ServerErrorStatus

\* The amount of the body of request r as a number, in thousandths.
Submitted(r) == parseFloat(body[r].amount)

C18_AmountSentIsPositiveInteger ==
    \A r \in Reqs : \A i \in 1..Len(sent[r]) :
        via[r] = "http" =>
            /\ sent[r][i].AmountTrxn.t = "num"
            /\ sent[r][i].AmountTrxn.n % Scale = 0
            /\ sent[r][i].AmountTrxn.n > 0

\* The eight fields every payload has, and the optional text fields with the
\* paymentData field each is copied from.
RequiredWire ==
    {"AmountTrxn", "Currency", "MerchantReference", "MobileNumber", "MerchantId", "TerminalId",
     "DateTimeLocalTrxn", "SecureHash"}
OptionalWire ==
    { <<"Validity", "validity">>, <<"LoyaltyNumber", "loyaltyNumber">>,
      <<"CustomerLabel", "customerLabel">>,
      <<"PurposeOfTransaction", "purposeOfTransaction">>, <<"BillNumber", "billNumber">> }

C20_OneWellFormedEnvelope ==
    \A r \in Reqs :
        via[r] = "http" =>
            /\ response[r].count <= 1
            /\ pc[r] = "done" <=> response[r].count = 1
            /\ response[r].count = 1 =>
                  /\ "success" \in response[r].keys
                  /\ response[r].success =>
                        /\ "data" \in response[r].keys
                        /\ "error" \notin response[r].keys
                        /\ response[r].error = NoErr
                  /\ ~response[r].success =>
                        /\ "error" \in response[r].keys
                        /\ "data" \notin response[r].keys
                        /\ response[r].error # NoErr

\* C20 witness: a request whose third attempt timed out has been answered
\* once, with an error envelope.
C20_Witness ==
    \E r \in Reqs :
        /\ via[r] = "http"
        /\ attempt[r] = maxRetries
        /\ response[r].count = 1
        /\ ~response[r].success
        /\ response[r].error.kind = "timeoutAfter90"

\* ----------------------------------------------------- properties: C21-C27
\* The invocation of r ended with an attempt the upstream answered with an
\* error response.
EndedWithErrorResponse(r) ==
    /\ pc[r] = "done"
    /\ trace[r] # <<>>
    /\ trace[r][Len(trace[r])].ev = "fail"
    /\ trace[r][Len(trace[r])].status # 0

\* C21: an attempt the upstream answers with an error response is the last
\* event of the invocation (it is not retried, whatever the attempt number),
\* requestToPay throws the "UPG API Error" that carries the status and the body
\* of that response, and the endpoint's envelope carries that same error.
C21_ErrorResponsePassedThrough ==
    \A r \in Reqs :
        /\ \A i \in 1..Len(trace[r]) :
              (trace[r][i].ev = "fail" /\ trace[r][i].status # 0) => i = Len(trace[r])
        /\ EndedWithErrorResponse(r) =>
              /\ result[r].kind = "thrown"
              /\ result[r].error.kind = "upgApiError"
              /\ result[r].error.status = trace[r][Len(trace[r])].status
              /\ result[r].error.data = trace[r][Len(trace[r])].data
              /\ via[r] = "http" =>
                    /\ ~response[r].success
                    /\ response[r].error = result[r].error

\* C21 witness: in the revision with the retry loop, a first attempt timed out
\* and the second was answered 500 with a body; the endpoint has answered.
C21_Witness ==
    \E r \in Reqs :
        /\ revision = "retry"
        /\ via[r] = "http"
        /\ EndedWithErrorResponse(r)
        /\ attempt[r] = 2
        /\ result[r].error.status = 500
        /\ result[r].error.data = "ServerError"
        /\ response[r].count = 1

\* C22: every invocation of requestToPay ends, and when it has ended it has
\* either returned the upstream body or thrown an error, never neither; while
\* it has not ended it has done neither.
C22_InvocationEndsReturnedOrThrown ==
    /\ [](\A r \in Reqs :
            invoked[r] =>
                /\ pc[r] = "done" => result[r].kind \in {"returned", "thrown"}
                /\ result[r].kind = "thrown" => result[r].error # NoErr
                /\ pc[r] # "done" => result[r].kind = "none")
    /\ \A r \in Reqs : invoked[r] ~> (pc[r] = "done")

\* C22 witness: an invocation has ended by throwing after three failed attempts.
C22_Witness ==
    \E r \in Reqs :
        /\ invoked[r]
        /\ pc[r] = "done"
        /\ attempt[r] = maxRetries
        /\ result[r].kind = "thrown"

\* C23: every payload an invocation sends is the payload it built before its
\* first attempt, field for field, whatever the clock reads when it retries.
C23_RetriesResendTheFirstPayload ==
    \A r \in Reqs : \A i \in 1..Len(sent[r]) :
        /\ sent[r][i] = sent[r][1]
        /\ sent[r][i] = requestPayload[r]

\* C23 witness: a third attempt was sent when the clock had moved on to the
\* next hundredth of a second, with the token of the first attempt.
C23_Witness ==
    \E r \in Reqs :
        /\ Len(sent[r]) = 3
        /\ sent[r][3].DateTimeLocalTrxn # Str(generateTransactionDateTime(now))
        /\ sent[r][3].DateTimeLocalTrxn = sent[r][1].DateTimeLocalTrxn
        /\ sent[r][3].SecureHash = sent[r][1].SecureHash

\* Everything the program keeps for request r.
Slot(r) ==
    <<pc[r], via[r], body[r], invoked[r], paymentData[r], signed[r], requestPayload[r],
      attempt[r], lastError[r], sent[r], trace[r], result[r], response[r]>>

\* C24: no step changes what is kept for two requests, and none changes the
\* configuration once requests are served; and two requests with the same
\* body, the same clock reading at receipt (which the generated merchant
\* reference records) and the same upstream outcomes so far have the same
\* payloads, attempt count, result and response, however the steps of the two
\* were interleaved.
C24_ConcurrentRequestsIndependent ==
    /\ [][/\ \A r1 \in Reqs : \A r2 \in Reqs \ {r1} :
                ~(Slot(r1)' # Slot(r1) /\ Slot(r2)' # Slot(r2))
           /\ server = "listening" => (CONFIG' = CONFIG /\ revision' = revision)]_vars
    /\ [](\A r1 \in Reqs : \A r2 \in Reqs :
            (/\ via[r1] = via[r2]
             /\ body[r1] = body[r2]
             /\ requestPayload[r1].MerchantReference = requestPayload[r2].MerchantReference
             /\ trace[r1] = trace[r2]) => Slot(r1) = Slot(r2))

\* C24 witness: of two requests with the same body in flight together, one has
\* ended after its first attempt while the other is suspended in the backoff
\* before its third.
C24_Witness ==
    \E r1 \in Reqs : \E r2 \in Reqs :
        /\ body[r1] = body[r2]
        /\ pc[r1] = "done" /\ attempt[r1] = 1 /\ result[r1].kind = "returned"
        /\ pc[r2] = "backoff" /\ attempt[r2] = 2

\* A credential of the environment is absent or empty.
CredentialMissing ==
    \/ ~Truthy(CONFIG.MERCHANT_ID)
    \/ ~Truthy(CONFIG.TERMINAL_ID)
    \/ ~Truthy(CONFIG.MERCHANT_SECRET_KEY)

\* C25: when a credential is absent or empty the process never listens: no
\* request is received, requestToPay is never called and nothing is posted.
C25_NoServiceWithoutCredentials ==
    CredentialMissing =>
        /\ server # "listening"
        /\ \A r \in Reqs : via[r] = "none" /\ ~invoked[r] /\ sent[r] = <<>> /\ pc[r] = "idle"

\* C25 witness: the process has exited where TERMINAL_ID is the empty string.
C25_Witness ==
    /\ server = "exited"
    /\ CONFIG.TERMINAL_ID = Str(<<>>)

\* The trace of r is a timeout on the first attempt, then a refused connection
\* on the second.
TimeoutThenRefused(r) ==
    /\ Len(trace[r]) = 6
    /\ trace[r][2].ev = "fail" /\ trace[r][2].code \in TimeoutCodes
    /\ trace[r][6].ev = "fail" /\ trace[r][6].code = "ECONNREFUSED"

\* C26: in the revision with the retry loop, an invocation that ended in a
\* failure throws the error its last attempt's failure determines (the
\* category of its code when there was no response, the status of the
\* response otherwise), whatever the earlier attempts failed with; a timeout
\* followed by a refused connection ends after two attempts as "connection
\* refused"; and a backoff is set only after an attempt before the last
\* permitted one, never as the last event of an invocation that has ended.
C26_CategoryFromLastAttemptOnly ==
    revision = "retry" =>
        \A r \in Reqs :
            /\ (pc[r] = "done" /\ trace[r] # <<>> /\ LastEvent(r).ev = "fail") =>
                  /\ result[r].kind = "thrown"
                  /\ LastEvent(r).status = 0 =>
                        Category(result[r].error.kind) = CategoryOfCode(LastEvent(r).code)
                  /\ LastEvent(r).status # 0 =>
                        /\ result[r].error.kind = "upgApiError"
                        /\ result[r].error.status = LastEvent(r).status
            /\ TimeoutThenRefused(r) =>
                  /\ pc[r] = "done"
                  /\ attempt[r] = 2
                  /\ result[r].error.kind = "refused"
            /\ \A i \in 1..Len(trace[r]) :
                  trace[r][i].ev = "delay" =>
                      /\ trace[r][i].k < maxRetries
                      /\ i = Len(trace[r]) => pc[r] = "backoff"

\* C26 witness: a timeout, then a refused connection, surfaced as refused.
C26_Witness ==
    \E r \in Reqs :
        /\ revision = "retry"
        /\ TimeoutThenRefused(r)
        /\ trace[r][2].code = "ECONNABORTED"
        /\ result[r].error.kind = "refused"

\* C27: every payload sent for a body whose tip option is the boolean true or
\* the string 'true' has Tip = true; and every payload sent for a body with a
\* tip flag and a fee, from which the fee fields were left out, has Tip = true.
C27_TipEnabledReachesTheWire ==
    \A r \in Reqs : \A i \in 1..Len(sent[r]) :
        via[r] = "http" =>
            /\ body[r].tip \in {Bool(TRUE), Str(<<"t", "r", "u", "e">>)} =>
                  sent[r][i].Tip = Bool(TRUE)
            /\ (/\ Truthy(body[r].tip)
                /\ FeeSupplied(body[r].convenienceFeeFixed)
                      \/ FeeSupplied(body[r].convenienceFeePercentage)
                /\ ~Has(sent[r][i], "ConvenienceFeeFixed")
                /\ ~Has(sent[r][i], "ConvenienceFeePercentage")) =>
                  sent[r][i].Tip = Bool(TRUE)
====
